---- MODULE Spec2Model ----
(***************************************************************************)
(* Model of the job poller: the dedup store (src/src/storage.py), the      *)
(* retriever (src/src/scraper.py) and the scheduler loop (src/src/main.py). *)
(*                                                                         *)
(* Text is a sequence of one-character strings, so that lower() and        *)
(* strip() are computed.  Time is counted in scheduler ticks (one          *)
(* time.sleep(60) of main's loop).                                         *)
(***************************************************************************)
EXTENDS Integers, Sequences, FiniteSets, TLC

VARIABLES
  \* ---- scheduler loop of main() and process_jobs()
  pc,               \* position in the loop / last store operation
  clock,            \* wall clock, in ticks
  now,              \* main(): now = time.time() taken at the top of the loop
  last_jobspy_run,  \* main(): last_jobspy_run
  last_jooble_run,  \* main(): last_jooble_run
  source,           \* the family whose poll is in progress
  jobs,             \* process_jobs(): jobs
  new_jobs,         \* process_jobs(): new_jobs
  linkedin_429,     \* JobScraper.linkedin_429
  seen_jobs,        \* table seen_jobs: job_id -> row
  \* ---- history of the run (observed, never read by the program)
  handed,           \* job_ids ever passed to notifier.notify
  notifyCount,      \* job_id -> times passed to notify since its row was last deleted
  polled,           \* family -> outcome of its poll in the current tick
  seen_before,      \* the table before the last store operation
  \* ---- generate_job_id applied to two triples
  fx, fy, fout,
  \* ---- one call of JobScraper.scrape_site
  site, rate_limit, attempt, calls, sleeps, outcomes, result, raised,
  \* ---- one pass of JobScraper.scrape_searches
  searches,         \* scrape_searches(): searches
  sites,            \* scrape_searches(): sites
  rate_limits,      \* JobScraper.rate_limits
  term_idx,         \* position of "for search in searches"
  site_idx,         \* position of "for site in sites" of scrape_all
  all_jobs,         \* scrape_searches(): all_jobs
  events,           \* the scrape_site calls and inter-site sleeps of the pass
  rate_signals,     \* the sites an attempt of which was rate-limited in the pass
  exhausted,        \* how many scrape_site calls of the pass never succeeded
  \* ---- one call of filter_jobs
  fjobs, fopts, filtered

schedVars == <<pc, clock, now, last_jobspy_run, last_jooble_run, source, jobs,
               new_jobs, seen_jobs, handed, notifyCount, polled, seen_before>>
fpVars == <<fx, fy, fout>>
scrapeVars == <<site, rate_limit, attempt, calls, sleeps, outcomes, result, raised>>
passVars == <<searches, sites, rate_limits, term_idx, site_idx, all_jobs, events,
              rate_signals, exhausted>>
filterVars == <<fjobs, fopts, filtered>>
vars == <<schedVars, linkedin_429, fpVars, scrapeVars, passVars, filterVars>>

----------------------------------------------------------------------------
\* Bounds of the model.

\* longest url / company / title drawn for generate_job_id
MaxStrLen == 1
\* most search terms of a pass
MaxTerms == 2
\* most sites of a pass
MaxSites == 2
\* longest batch a poll or a store call is given
MaxBatch == 2
\* ticks the clock runs for
MaxTicks == 5
\* config interval_hours, in ticks
JobspyInterval == 2
\* config jooble_interval_hours, in ticks
JoobleInterval == 3
\* cleanup_old(days=30), the retention window in ticks
RetentionTicks == 2
\* largest max_retries of a configured rate limit
MaxRetriesCfg == 3

----------------------------------------------------------------------------
\* Text.

Chars == {"a", "A", " ", "|"}
Space == " "

RECURSIVE StrOfLen(_)
StrOfLen(n) ==
  IF n = 0 THEN {<<>>}
  ELSE {Append(s, c) : s \in StrOfLen(n - 1), c \in Chars}

RECURSIVE StrUpTo(_)
StrUpTo(n) == IF n = 0 THEN StrOfLen(0) ELSE StrOfLen(n) \cup StrUpTo(n - 1)

\* str.lower()
LowerChar(c) == IF c = "A" THEN "a" ELSE c
Lower(s) == [i \in DOMAIN s |-> LowerChar(s[i])]

\* str.strip(): leading and trailing whitespace of the whole string
RECURSIVE LStrip(_)
LStrip(s) == IF s # <<>> /\ Head(s) = Space THEN LStrip(Tail(s)) ELSE s
RECURSIVE RStrip(_)
RStrip(s) ==
  IF s # <<>> /\ s[Len(s)] = Space THEN RStrip(SubSeq(s, 1, Len(s) - 1)) ELSE s
Strip(s) == LStrip(RStrip(s))

\* hashlib.sha256(raw.encode()).hexdigest()[:16]: the digest is taken to be
\* collision-free, so it is an injective tagging of its input (never empty).
Sha256Hex16(raw) == <<"#">> \o raw

\* JobStorage.generate_job_id: raw = f"{url}|{company}|{title}".lower().strip()
generate_job_id(url, company, title) ==
  Sha256Hex16(Strip(Lower(url \o <<"|">> \o company \o <<"|">> \o title)))

----------------------------------------------------------------------------
\* Listings.

NoId == <<>>            \* a listing without "_job_id"
Families == {"JobSpy", "Jooble"}
SiteOf(f) == IF f = "JobSpy" THEN "linkedin" ELSE "jooble"

JobUrls == {<<"a">>, <<"A">>}
Companies == {<<"a">>}
Titles == {<<"a">>, <<>>}
Descriptions == {"d1", "d2"}

\* the rows a source can return (no "_job_id" yet)
Listings ==
  [job_url : JobUrls, company : Companies, title : Titles,
   site : {SiteOf(f) : f \in Families}, description : Descriptions,
   job_id : {NoId}]

\* the rows one family returns in a poll of the scheduler
ListingsOf(f) ==
  {l \in Listings : l.site = SiteOf(f) /\ l.job_url = <<"a">> /\ l.description = "d1"}

RECURSIVE SeqsOfLen(_, _)
SeqsOfLen(S, n) ==
  IF n = 0 THEN {<<>>}
  ELSE {Append(s, x) : s \in SeqsOfLen(S, n - 1), x \in S}
RECURSIVE SeqsUpTo(_, _)
SeqsUpTo(S, n) ==
  IF n = 0 THEN SeqsOfLen(S, 0) ELSE SeqsOfLen(S, n) \cup SeqsUpTo(S, n - 1)

Batches(S) == SeqsUpTo(S, MaxBatch)

\* the id keyed on volatile fields too
JobIdWithDescription(job) ==
  generate_job_id(job.job_url, job.company, job.title \o <<job.description>>)

\* filter_new_jobs / mark_jobs_seen: generate_job_id(job.get("job_url", ""), ...)
JobId(job) == generate_job_id(job.job_url, job.company, job.title)

----------------------------------------------------------------------------
\* The dedup store (JobStorage).

\* is_seen that never finds a row
is_seen_never(db, job_id) == FALSE

\* JobStorage.is_seen: SELECT 1 FROM seen_jobs WHERE job_id = ?
is_seen(db, job_id) == job_id \in DOMAIN db

Row(title, company, url, st, t) ==
  [title |-> title, company |-> company, url |-> url, site |-> st, seen_at |-> t]

Put(db, job_id, row) ==
  [k \in DOMAIN db \cup {job_id} |-> IF k = job_id THEN row ELSE db[k]]

\* INSERT OR REPLACE instead of INSERT OR IGNORE
mark_seen_replace(db, job_id, title, company, url, st, t) ==
  Put(db, job_id, Row(title, company, url, st, t))

\* JobStorage.mark_seen: INSERT OR IGNORE ...; seen_at DEFAULT CURRENT_TIMESTAMP
mark_seen(db, job_id, title, company, url, st, t) ==
  IF job_id \in DOMAIN db THEN db
  ELSE Put(db, job_id, Row(title, company, url, st, t))

\* the loop of filter_new_jobs from index i on
RECURSIVE FilterLoop(_, _, _, _, _)
FilterLoop(db, js, i, seen_in_batch, acc) ==
  IF i > Len(js) THEN acc
  ELSE LET job_id == JobId(js[i]) IN
       IF job_id \in seen_in_batch \/ is_seen(db, job_id)
       THEN FilterLoop(db, js, i + 1, seen_in_batch, acc)
       ELSE FilterLoop(db, js, i + 1, seen_in_batch \cup {job_id},
                       Append(acc, [js[i] EXCEPT !.job_id = job_id]))

\* filter_new_jobs without the batch-local set
filter_new_jobs_no_batch_set(db, js) ==
  LET keep == {i \in 1..Len(js) : ~is_seen(db, JobId(js[i]))}
      F[i \in 0..Len(js)] ==
        IF i = 0 THEN <<>>
        ELSE IF i \in keep
             THEN Append(F[i - 1], [js[i] EXCEPT !.job_id = JobId(js[i])])
             ELSE F[i - 1]
  IN F[Len(js)]

\* JobStorage.filter_new_jobs
filter_new_jobs(db, js) == FilterLoop(db, js, 1, {}, <<>>)

\* the first k iterations of mark_jobs_seen's loop (k = Len(js): the whole call)
RECURSIVE MarkLoop(_, _, _, _)
MarkLoop(db, js, k, t) ==
  IF k = 0 THEN db
  ELSE LET job == js[k]
           job_id == IF job.job_id # NoId THEN job.job_id ELSE JobId(job)
       IN mark_seen(MarkLoop(db, js, k - 1, t), job_id,
                    job.title, job.company, job.job_url, job.site, t)

\* JobStorage.mark_jobs_seen
mark_jobs_seen(db, js, t) == MarkLoop(db, js, Len(js), t)

\* a sweep that also deletes the rows exactly as old as the window
cleanup_old_inclusive(db, days, t) ==
  [k \in {j \in DOMAIN db : ~(db[j].seen_at <= t - days)} |-> db[k]]

\* a sweep that deletes nothing
cleanup_old_keep_all(db, days, t) == db

\* JobStorage.cleanup_old: DELETE FROM seen_jobs WHERE seen_at < datetime('now', '-N days')
cleanup_old(db, days, t) ==
  [k \in {j \in DOMAIN db : ~(db[j].seen_at < t - days)} |-> db[k]]

----------------------------------------------------------------------------
\* The filter (filters.py), with the configuration that sets no predicate:
\* config.get("title_must_contain") etc. are None / False.

\* ---- filters.py

\* a missing field (job.get(...) is None) and pandas' NaN
None == <<"None">>
NaN == <<"NaN">>

UpperCase == <<"A", "B", "C", "D", "E", "F", "G", "H", "I", "J", "K", "L", "M",
               "N", "O", "P", "Q", "R", "S", "T", "U", "V", "W", "X", "Y", "Z">>
LowerCase == <<"a", "b", "c", "d", "e", "f", "g", "h", "i", "j", "k", "l", "m",
               "n", "o", "p", "q", "r", "s", "t", "u", "v", "w", "x", "y", "z">>

\* str.lower() on the texts of listings and of filter options
ToLower == [c \in {UpperCase[i] : i \in DOMAIN UpperCase} |->
              LowerCase[CHOOSE i \in DOMAIN UpperCase : UpperCase[i] = c]]
LowerText(s) == [i \in DOMAIN s |-> IF s[i] \in DOMAIN ToLower THEN ToLower[s[i]]
                                    ELSE s[i]]

\* filters.py: _clean_str
clean_str(value) ==
  IF value = None \/ value = NaN THEN <<>> ELSE Strip(LowerText(value))

\* "kw in text" on strings
Contains(kw, text) ==
  \E i \in 0..(Len(text) - Len(kw)) : SubSeq(text, i + 1, i + Len(kw)) = kw

\* any(kw in text for kw in kws)
AnyIn(kws, text) == \E k \in DOMAIN kws : Contains(kws[k], text)

\* filters.py: REMOTE_KEYWORDS
REMOTE_KEYWORDS ==
  <<<<"r", "e", "m", "o", "t", "e">>,
    <<"r", "e", "m", "o", "t", "o">>,
    <<"t", "e", "l", "e", "t", "r", "a", "b", "a", "j", "o">>,
    <<"t", "r", "a", "b", "a", "j", "o", " ", "r", "e", "m", "o", "t", "o">>,
    <<"f", "u", "l", "l", " ", "r", "e", "m", "o", "t", "e">>,
    <<"1", "0", "0", "%", " ", "r", "e", "m", "o", "t", "e">>,
    <<"f", "u", "l", "l", "y", " ", "r", "e", "m", "o", "t", "e">>,
    <<"w", "o", "r", "k", " ", "f", "r", "o", "m", " ", "h", "o", "m", "e">>,
    <<"w", "f", "h">>>>

\* filters.py: SPAIN_KEYWORDS (the entries without accented letters; the texts
\* drawn for listings have none)
SPAIN_KEYWORDS ==
  <<<<"s", "p", "a", "i", "n">>,
    <<"k", "i", "n", "g", "d", "o", "m", " ", "o", "f", " ", "s", "p", "a", "i", "n">>,
    <<"m", "a", "d", "r", "i", "d">>,
    <<"b", "a", "r", "c", "e", "l", "o", "n", "a">>,
    <<"v", "a", "l", "e", "n", "c", "i", "a">>,
    <<"s", "e", "v", "i", "l", "l", "a">>,
    <<"b", "i", "l", "b", "a", "o">>,
    <<"m", "a", "l", "a", "g", "a">>,
    <<"z", "a", "r", "a", "g", "o", "z", "a">>,
    <<"m", "u", "r", "c", "i", "a">>,
    <<"p", "a", "l", "m", "a">>,
    <<"l", "a", "s", " ", "p", "a", "l", "m", "a", "s">>,
    <<"a", "l", "i", "c", "a", "n", "t", "e">>,
    <<"c", "o", "r", "d", "o", "b", "a">>,
    <<"v", "a", "l", "l", "a", "d", "o", "l", "i", "d">>,
    <<"g", "i", "j", "o", "n">>,
    <<"g", "r", "a", "n", "a", "d", "a">>,
    <<",", " ", "e", "s">>>>

\* filters.py: _is_remote
is_remote(job) ==
  LET title == clean_str(job.title)
      location == clean_str(job.location)
      description == clean_str(job.description)
      text == title \o <<" ">> \o location \o <<" ">> \o description
  IN AnyIn(REMOTE_KEYWORDS, text)

\* filters.py: _is_spain
is_spain(job) ==
  LET location == clean_str(job.location)
      description == clean_str(job.description)
      text == location \o <<" ">> \o description
  IN AnyIn(SPAIN_KEYWORDS, text)

\* [kw.lower() for kw in (option or [])]
LowerAll(kws) == [k \in DOMAIN kws |-> LowerText(kws[k])]

\* filter_jobs: whether the body of "for job in jobs" reaches filtered.append(job)
Appended(job, title_keywords, location_blacklist, remote_only, spain_only) ==
  LET title == clean_str(job.title)
      location == clean_str(job.location)
  IN IF title_keywords # <<>> /\ ~AnyIn(title_keywords, title) THEN FALSE
     ELSE IF location_blacklist # <<>> /\ AnyIn(location_blacklist, location) THEN FALSE
     ELSE IF spain_only /\ ~is_spain(job) THEN FALSE
     ELSE IF remote_only /\ ~is_remote(job) THEN FALSE
     ELSE TRUE

\* filter_jobs: "for job in jobs: ... filtered.append(job)", from the i-th job on
RECURSIVE FilterJobsLoop(_, _, _, _, _, _)
FilterJobsLoop(js, i, title_keywords, location_blacklist, remote_only, spain_only) ==
  IF i > Len(js) THEN <<>>
  ELSE (IF Appended(js[i], title_keywords, location_blacklist, remote_only, spain_only)
        THEN <<js[i]>> ELSE <<>>)
       \o FilterJobsLoop(js, i + 1, title_keywords, location_blacklist, remote_only,
                         spain_only)

\* filter_jobs with the location blacklist never consulted
filter_jobs_no_blacklist(js, title_must_contain, location_exclude, remote_only, spain_only) ==
  IF title_must_contain = <<>> /\ location_exclude = <<>> /\ ~remote_only /\ ~spain_only
  THEN js
  ELSE FilterJobsLoop(js, 1, LowerAll(title_must_contain), <<>>, remote_only,
                      spain_only)

\* filters.py: filter_jobs; "if not title_must_contain and ... : return jobs" first
filter_jobs(js, title_must_contain, location_exclude, remote_only, spain_only) ==
  IF title_must_contain = <<>> /\ location_exclude = <<>> /\ ~remote_only /\ ~spain_only
  THEN js
  ELSE FilterJobsLoop(js, 1, LowerAll(title_must_contain), LowerAll(location_exclude),
                      remote_only, spain_only)

----------------------------------------------------------------------------
\* Initial values of the three groups of variables.

\* time.time() at start is later than any interval: both families are due
StartClock == JobspyInterval + JoobleInterval + RetentionTicks
MaxClock == StartClock + MaxTicks

AllIds == {JobId(l) : l \in Listings}
EmptyTable == [k \in {} |-> 0]
Ids(js) == {js[i].job_id : i \in 1..Len(js)}

SchedInit ==
  /\ pc = "top"
  /\ clock = StartClock
  /\ now = 0
  /\ last_jobspy_run = 0
  /\ last_jooble_run = 0
  /\ source = "none"
  /\ jobs = <<>>
  /\ new_jobs = <<>>
  /\ linkedin_429 = FALSE
  /\ seen_jobs = EmptyTable
  /\ handed = {}
  /\ notifyCount = [id \in AllIds |-> 0]
  /\ polled = [f \in Families |-> "none"]
  /\ seen_before = EmptyTable

FpInit ==
  /\ fx = <<<<>>, <<>>, <<>>>>
  /\ fy = <<<<>>, <<>>, <<>>>>
  /\ fout = <<>>

ScrapeInit ==
  /\ site = "none"
  /\ rate_limit = [delay |-> 0, max_retries |-> 0, backoff |-> 0]
  /\ attempt = 0
  /\ calls = <<>>
  /\ sleeps = <<>>
  /\ outcomes = <<>>
  /\ result = <<>>
  /\ raised = FALSE

PassInit ==
  /\ searches = <<>>
  /\ sites = <<>>
  /\ rate_limits = EmptyTable
  /\ term_idx = 0
  /\ site_idx = 0
  /\ all_jobs = <<>>
  /\ events = <<>>
  /\ rate_signals = {}
  /\ exhausted = 0

FilterInit ==
  /\ fjobs = <<>>
  /\ fopts = <<>>
  /\ filtered = <<>>

----------------------------------------------------------------------------
\* The scheduler: main()'s loop and process_jobs().

Interval(f) == IF f = "JobSpy" THEN JobspyInterval ELSE JoobleInterval
LastRun(f) == IF f = "JobSpy" THEN last_jobspy_run ELSE last_jooble_run
CheckPc(f) == IF f = "JobSpy" THEN "jobspy" ELSE "jooble"
AfterPc(f) == IF f = "JobSpy" THEN "jooble" ELSE "cleanup"

\* the due check with a strict comparison
Due_strict(f) == now - LastRun(f) > Interval(f)

\* main(): "now - last_jobspy_run >= jobspy_interval" (sites and jooble configured)
Due(f) == now - LastRun(f) >= Interval(f)

\* a completed poll that sets the last-run time of both families
Returned_sets_both(f) ==
  /\ last_jobspy_run' = now
  /\ last_jooble_run' = now
  /\ polled' = [polled EXCEPT ![f] = "ok"]
  /\ source' = "none"
  /\ jobs' = <<>>
  /\ new_jobs' = <<>>
  /\ pc' = AfterPc(f)

\* process_jobs returned: "logger.info(summary); last_*_run = now"; the poll's
\* locals are dead from here on
Returned(f) ==
  /\ last_jobspy_run' = IF f = "JobSpy" THEN now ELSE last_jobspy_run
  /\ last_jooble_run' = IF f = "Jooble" THEN now ELSE last_jooble_run
  /\ polled' = [polled EXCEPT ![f] = "ok"]
  /\ source' = "none"
  /\ jobs' = <<>>
  /\ new_jobs' = <<>>
  /\ pc' = AfterPc(f)

\* an exception of the poll with no handler around it: it leaves main()
Caught_propagates(f) ==
  /\ UNCHANGED <<last_jobspy_run, last_jooble_run>>
  /\ polled' = [polled EXCEPT ![f] = "failed"]
  /\ source' = "none"
  /\ jobs' = <<>>
  /\ new_jobs' = <<>>
  /\ pc' = "crashed"

\* an exception of the poll reaches "except Exception as e:" of main's loop
Caught(f) ==
  /\ UNCHANGED <<last_jobspy_run, last_jooble_run>>
  /\ polled' = [polled EXCEPT ![f] = "failed"]
  /\ source' = "none"
  /\ jobs' = <<>>
  /\ new_jobs' = <<>>
  /\ pc' = AfterPc(f)

\* "while True: now = time.time()"
LoopTop ==
  /\ pc = "top"
  /\ now' = clock
  /\ polled' = [f \in Families |-> "none"]
  /\ pc' = "jobspy"
  /\ UNCHANGED <<clock, last_jobspy_run, last_jooble_run, source, jobs, new_jobs,
                 seen_jobs, handed, notifyCount, seen_before, linkedin_429,
                 fpVars, scrapeVars, passVars, filterVars>>

\* the family is not due in this tick
NotDue(f) ==
  /\ pc = CheckPc(f)
  /\ ~Due(f)
  /\ pc' = AfterPc(f)
  /\ UNCHANGED <<clock, now, last_jobspy_run, last_jooble_run, source, jobs, new_jobs,
                 seen_jobs, handed, notifyCount, polled, seen_before, linkedin_429,
                 fpVars, scrapeVars, passVars, filterVars>>

\* scraper.scrape_searches(...) / jooble.search_multiple(...) returns rows;
\* scrape_searches leaves the flag of the pass in scraper.linkedin_429
Retrieve(f) ==
  /\ pc = CheckPc(f)
  /\ Due(f)
  /\ \E batch \in Batches(ListingsOf(f)), flag \in BOOLEAN :
       /\ jobs' = batch
       /\ linkedin_429' = IF f = "JobSpy" THEN flag ELSE linkedin_429
  /\ source' = f
  /\ new_jobs' = <<>>
  /\ pc' = "process"
  /\ UNCHANGED <<clock, now, last_jobspy_run, last_jooble_run, seen_jobs, handed,
                 notifyCount, polled, seen_before, fpVars, scrapeVars, passVars, filterVars>>

\* the retrieval raises (search["term"] missing, a malformed Jooble response)
RetrieveFails(f) ==
  /\ pc = CheckPc(f)
  /\ Due(f)
  /\ linkedin_429' = IF f = "JobSpy" THEN FALSE ELSE linkedin_429
  /\ Caught(f)
  /\ UNCHANGED <<clock, now, seen_jobs, handed, notifyCount, seen_before,
                 fpVars, scrapeVars, passVars, filterVars>>

\* process_jobs: "if not jobs: return"
ProcessEmpty ==
  /\ pc = "process"
  /\ jobs = <<>>
  /\ Returned(source)
  /\ UNCHANGED <<clock, now, seen_jobs, handed, notifyCount, seen_before,
                 linkedin_429, fpVars, scrapeVars, passVars, filterVars>>

\* process_jobs: jobs = filter_jobs(jobs, ...), the config setting no filter option
FilterJobs ==
  /\ pc = "process"
  /\ jobs # <<>>
  /\ jobs' = filter_jobs(jobs, <<>>, <<>>, FALSE, FALSE)
  /\ pc' = "dedup"
  /\ UNCHANGED <<clock, now, last_jobspy_run, last_jooble_run, source, new_jobs,
                 seen_jobs, handed, notifyCount, polled, seen_before, linkedin_429,
                 fpVars, scrapeVars, passVars, filterVars>>

\* process_jobs: new_jobs = storage.filter_new_jobs(jobs); "if new_jobs:" is false
FilterNewNone ==
  /\ pc = "dedup"
  /\ filter_new_jobs(seen_jobs, jobs) = <<>>
  /\ Returned(source)
  /\ UNCHANGED <<clock, now, seen_jobs, handed, notifyCount, seen_before,
                 linkedin_429, fpVars, scrapeVars, passVars, filterVars>>

\* process_jobs: new_jobs = storage.filter_new_jobs(jobs); "if new_jobs:" is true
FilterNewSome ==
  /\ pc = "dedup"
  /\ filter_new_jobs(seen_jobs, jobs) # <<>>
  /\ new_jobs' = filter_new_jobs(seen_jobs, jobs)
  /\ pc' = "mark"
  /\ UNCHANGED <<clock, now, last_jobspy_run, last_jooble_run, source, jobs,
                 seen_jobs, handed, notifyCount, polled, seen_before, linkedin_429,
                 fpVars, scrapeVars, passVars, filterVars>>

\* is_seen raises (the database is unavailable): caught by main's loop
FilterNewFails ==
  /\ pc = "dedup"
  /\ Caught(source)
  /\ UNCHANGED <<clock, now, seen_jobs, handed, notifyCount, seen_before,
                 linkedin_429, fpVars, scrapeVars, passVars, filterVars>>

\* process_jobs: storage.mark_jobs_seen(new_jobs), the first statement of "if new_jobs:"
MarkJobsSeen ==
  /\ pc = "mark"
  /\ seen_jobs' = mark_jobs_seen(seen_jobs, new_jobs, clock)
  /\ pc' = "notify"
  /\ UNCHANGED <<clock, now, last_jobspy_run, last_jooble_run, source, jobs,
                 new_jobs, handed, notifyCount, polled, seen_before, linkedin_429,
                 fpVars, scrapeVars, passVars, filterVars>>

\* mark_seen raises at the (k+1)-th listing: each mark_seen before it has committed
\* (one connection per call), and the exception is caught by main's loop
MarkJobsSeenFails ==
  /\ pc = "mark"
  /\ \E k \in 0..(Len(new_jobs) - 1) :
       seen_jobs' = MarkLoop(seen_jobs, new_jobs, k, clock)
  /\ Caught(source)
  /\ UNCHANGED <<clock, now, handed, notifyCount, seen_before, linkedin_429,
                 fpVars, scrapeVars, passVars, filterVars>>

Bump(cnt, ids) == [id \in DOMAIN cnt |-> IF id \in ids /\ cnt[id] < 2
                                        THEN cnt[id] + 1 ELSE cnt[id]]

\* process_jobs: notifier.notify(new_jobs, linkedin_429=...) returns True or False
Notify ==
  /\ pc = "notify"
  /\ handed' = handed \cup Ids(new_jobs)
  /\ notifyCount' = Bump(notifyCount, Ids(new_jobs))
  /\ Returned(source)
  /\ UNCHANGED <<clock, now, seen_jobs, seen_before, linkedin_429,
                 fpVars, scrapeVars, passVars, filterVars>>

\* notifier.notify raises, and the rows of the batch are taken out of the store
NotifyRaises_rolls_back ==
  /\ pc = "notify"
  /\ handed' = handed \cup Ids(new_jobs)
  /\ notifyCount' = Bump(notifyCount, Ids(new_jobs))
  /\ seen_jobs' = [id \in DOMAIN seen_jobs \ Ids(new_jobs) |-> seen_jobs[id]]
  /\ Caught(source)
  /\ UNCHANGED <<clock, now, seen_before, linkedin_429,
                 fpVars, scrapeVars, passVars, filterVars>>

\* notifier.notify raises outside its try (_chunk_jobs formats each job)
NotifyRaises ==
  /\ pc = "notify"
  /\ handed' = handed \cup Ids(new_jobs)
  /\ notifyCount' = Bump(notifyCount, Ids(new_jobs))
  /\ Caught(source)
  /\ UNCHANGED <<clock, now, seen_jobs, seen_before, linkedin_429,
                 fpVars, scrapeVars, passVars, filterVars>>

\* main(): storage.cleanup_old(days=30)
Cleanup ==
  /\ pc = "cleanup"
  /\ seen_jobs' = cleanup_old(seen_jobs, RetentionTicks, clock)
  /\ notifyCount' = [id \in DOMAIN notifyCount |->
                       IF id \in DOMAIN seen_jobs /\ id \notin DOMAIN seen_jobs'
                       THEN 0 ELSE notifyCount[id]]
  /\ pc' = "sleep"
  /\ UNCHANGED <<clock, now, last_jobspy_run, last_jooble_run, source, jobs,
                 new_jobs, handed, polled, seen_before, linkedin_429,
                 fpVars, scrapeVars, passVars, filterVars>>

\* cleanup_old raises: "except Exception as e: logger.error(...)"
CleanupFails ==
  /\ pc = "cleanup"
  /\ pc' = "sleep"
  /\ UNCHANGED <<clock, now, last_jobspy_run, last_jooble_run, source, jobs, new_jobs,
                 seen_jobs, handed, notifyCount, polled, seen_before, linkedin_429,
                 fpVars, scrapeVars, passVars, filterVars>>

\* main(): time.sleep(60)
Sleep ==
  /\ pc = "sleep"
  /\ clock < MaxClock
  /\ clock' = clock + 1
  /\ pc' = "top"
  /\ UNCHANGED <<now, last_jobspy_run, last_jooble_run, source, jobs, new_jobs,
                 seen_jobs, handed, notifyCount, polled, seen_before, linkedin_429,
                 fpVars, scrapeVars, passVars, filterVars>>

Init == SchedInit /\ FpInit /\ ScrapeInit /\ PassInit /\ FilterInit

Next ==
  \/ LoopTop
  \/ \E f \in Families : NotDue(f)
  \/ \E f \in Families : Retrieve(f)
  \/ \E f \in Families : RetrieveFails(f)
  \/ ProcessEmpty
  \/ FilterJobs
  \/ FilterNewNone
  \/ FilterNewSome
  \/ FilterNewFails
  \/ MarkJobsSeen
  \/ MarkJobsSeenFails
  \/ Notify
  \/ NotifyRaises
  \/ Cleanup
  \/ CleanupFails
  \/ Sleep

Spec == Init /\ [][Next]_vars

\* a retrieval that returns at most one listing, the one with a title
RetrieveOne(f) ==
  /\ Retrieve(f)
  /\ Len(jobs') <= 1
  /\ \A i \in 1..Len(jobs') : jobs'[i].title # <<>>

\* the loop as in Next, its retrievals returning at most one listing
LiveNext ==
  \/ LoopTop
  \/ \E f \in Families : NotDue(f)
  \/ \E f \in Families : RetrieveOne(f)
  \/ \E f \in Families : RetrieveFails(f)
  \/ ProcessEmpty
  \/ FilterJobs
  \/ FilterNewNone
  \/ FilterNewSome
  \/ FilterNewFails
  \/ MarkJobsSeen
  \/ MarkJobsSeenFails
  \/ Notify
  \/ NotifyRaises
  \/ Cleanup
  \/ CleanupFails
  \/ Sleep

\* the loop with every step of it terminating: each retrieval, store call,
\* notification and sleep returns or raises, and the next step is taken
SpecLive == Init /\ [][LiveNext]_vars /\ WF_vars(LiveNext)

----------------------------------------------------------------------------
\* Claims about the scheduler (checked under Spec).

BetweenPolls == pc \in {"top", "jobspy", "jooble", "cleanup", "sleep"}

\* C1: every poll attempt of a due family in a tick, completed or failed with an
\* exception caught by the loop, sets that family's last poll time to the tick's now.
C1_LastPollTimeSetOnEveryAttempt ==
  \A f \in Families : polled[f] # "none" => LastRun(f) = now

\* C2: when the notification step of a poll is reached, no listing of the batch
\* has been recorded as seen yet (notify comes before markSeen).
C2_NotifyBeforeMarkSeen ==
  pc = "notify" => \A i \in 1..Len(new_jobs) : new_jobs[i].job_id \notin DOMAIN seen_jobs

\* C3: between polls, every row of the store belongs to a listing that was handed
\* to the notification step.
C3_SeenOnlyIfHandedToNotify ==
  BetweenPolls => DOMAIN seen_jobs \subseteq handed

\* C4: a fingerprint is handed to the notification step at most once while its
\* row has not been deleted by the retention sweep.
C4_NotifiedAtMostOnce ==
  \A id \in DOMAIN notifyCount : notifyCount[id] <= 1

\* C4 witness: Jooble's poll returns a fingerprint that JobSpy's poll of the same
\* tick has already handed to notify.
C4_Witness ==
  /\ pc = "dedup"
  /\ source = "Jooble"
  /\ polled["JobSpy"] = "ok"
  /\ \E i \in 1..Len(jobs) :
       /\ notifyCount[JobId(jobs[i])] = 1
       /\ JobId(jobs[i]) \in DOMAIN seen_jobs
       /\ seen_jobs[JobId(jobs[i])].seen_at = now
       /\ seen_jobs[JobId(jobs[i])].site = "linkedin"

----------------------------------------------------------------------------
\* The dedup store called directly: filter_new_jobs, mark_jobs_seen and cleanup_old
\* on arbitrary batches, with the clock advancing between calls.

\* the listings the store is called with: one listing, its spelling variant (the
\* same fingerprint), its copy with another description, and a different listing
StoreListings ==
  {l \in Listings :
     /\ l.site = "linkedin"
     /\ (l.job_url = <<"A">> \/ l.description = "d2") => l.title = <<"a">>
     /\ ~(l.job_url = <<"A">> /\ l.description = "d2")}
\* long enough for a row to become older than the retention window
StoreMaxClock == StartClock + RetentionTicks + 1

StoreInit == SchedInit /\ FpInit /\ ScrapeInit /\ PassInit /\ FilterInit

schedOnly == <<now, last_jobspy_run, last_jooble_run, source, handed, notifyCount,
               polled, linkedin_429>>

\* a filter_new_jobs that records its survivors as seen
CallFilterNew_marks ==
  /\ \E batch \in Batches(StoreListings) :
       /\ jobs' = batch
       /\ new_jobs' = filter_new_jobs(seen_jobs, batch)
       /\ seen_jobs' = mark_jobs_seen(seen_jobs, filter_new_jobs(seen_jobs, batch), clock)
  /\ seen_before' = seen_jobs
  /\ pc' = "filterNew"
  /\ UNCHANGED <<clock, schedOnly, fpVars, scrapeVars, passVars, filterVars>>

\* storage.filter_new_jobs(batch): reads the table, writes nothing
CallFilterNew ==
  /\ \E batch \in Batches(StoreListings) :
       /\ jobs' = batch
       /\ new_jobs' = filter_new_jobs(seen_jobs, batch)
  /\ seen_before' = seen_jobs
  /\ pc' = "filterNew"
  /\ UNCHANGED <<clock, seen_jobs, schedOnly, fpVars, scrapeVars, passVars, filterVars>>

\* storage.mark_jobs_seen(batch) on listings that carry no "_job_id"
CallMarkJobsSeen ==
  /\ \E batch \in Batches(StoreListings) :
       /\ jobs' = batch
       /\ seen_jobs' = mark_jobs_seen(seen_jobs, batch, clock)
  /\ new_jobs' = <<>>
  /\ seen_before' = seen_jobs
  /\ pc' = "markSeen"
  /\ UNCHANGED <<clock, schedOnly, fpVars, scrapeVars, passVars, filterVars>>

\* storage.mark_jobs_seen(new_jobs) on the survivors of the last filter_new_jobs
CallMarkNewJobs ==
  /\ pc = "filterNew"
  /\ new_jobs # <<>>
  /\ jobs' = new_jobs
  /\ seen_jobs' = mark_jobs_seen(seen_jobs, new_jobs, clock)
  /\ new_jobs' = <<>>
  /\ seen_before' = seen_jobs
  /\ pc' = "markSeen"
  /\ UNCHANGED <<clock, schedOnly, fpVars, scrapeVars, passVars, filterVars>>

\* storage.cleanup_old(days)
CallCleanupOld ==
  /\ seen_before' = seen_jobs
  /\ seen_jobs' = cleanup_old(seen_jobs, RetentionTicks, clock)
  /\ jobs' = <<>>
  /\ new_jobs' = <<>>
  /\ pc' = "cleanup"
  /\ UNCHANGED <<clock, schedOnly, fpVars, scrapeVars, passVars, filterVars>>

\* time passes between two calls
ClockTick ==
  /\ clock < StoreMaxClock
  /\ clock' = clock + 1
  /\ jobs' = <<>>
  /\ new_jobs' = <<>>
  /\ seen_before' = EmptyTable
  /\ pc' = "top"
  /\ UNCHANGED <<seen_jobs, schedOnly, fpVars, scrapeVars, passVars, filterVars>>

StoreNext ==
  \/ CallFilterNew
  \/ CallMarkJobsSeen
  \/ CallMarkNewJobs
  \/ CallCleanupOld
  \/ ClockTick

SpecStore == StoreInit /\ [][StoreNext]_vars

----------------------------------------------------------------------------
\* Claims about the dedup store (checked under SpecStore).

SameTriple(a, b) ==
  a.job_url = b.job_url /\ a.company = b.company /\ a.title = b.title

WithId(l) == [l EXCEPT !.job_id = JobId(l)]
WithoutIds(js) == [i \in DOMAIN js |-> [js[i] EXCEPT !.job_id = NoId]]

\* the indices of js that are the first of their fingerprint in js and not in db
FirstNew(db, js) ==
  {i \in 1..Len(js) :
     /\ JobId(js[i]) \notin DOMAIN db
     /\ \A j \in 1..(i - 1) : JobId(js[j]) # JobId(js[i])}

\* the elements of js at the indices in I, in the order of js
RECURSIVE AtIndices(_, _, _)
AtIndices(js, I, n) ==
  IF n = 0 THEN <<>>
  ELSE IF n \in I THEN Append(AtIndices(js, I, n - 1), js[n])
       ELSE AtIndices(js, I, n - 1)

\* C5: filterNew returns, in input order, exactly the listings that are the first
\* occurrence of their fingerprint in the batch and whose fingerprint is not stored.
C5_FilterNewFirstUnseen ==
  pc = "filterNew" =>
    WithoutIds(new_jobs) = AtIndices(jobs, FirstNew(seen_jobs, jobs), Len(jobs))

\* C5 witness: a batch of two different listings with one fingerprint, one survivor.
C5_Witness ==
  /\ pc = "filterNew"
  /\ Len(jobs) = 2
  /\ jobs[1] # jobs[2]
  /\ JobId(jobs[1]) = JobId(jobs[2])
  /\ new_jobs = <<WithId(jobs[1])>>

\* C6: markSeen on a fingerprint that is already stored leaves its row (display
\* fields and first-sighting time) as it was, and a second markSeen of the same
\* batch, at a later time, leaves the table as the first one left it.
C6_MarkSeenIdempotent ==
  pc = "markSeen" =>
    /\ \A id \in DOMAIN seen_before :
         id \in DOMAIN seen_jobs /\ seen_jobs[id] = seen_before[id]
    /\ mark_jobs_seen(seen_jobs, jobs, clock + 1) = seen_jobs

\* C6 witness: markSeen of a listing whose fingerprint was stored earlier, with a
\* different url spelling.
C6_Witness ==
  /\ pc = "markSeen"
  /\ \E i \in 1..Len(jobs) :
       /\ JobId(jobs[i]) \in DOMAIN seen_before
       /\ seen_before[JobId(jobs[i])].seen_at < clock
       /\ seen_before[JobId(jobs[i])].url # jobs[i].job_url

Expired(db, id, t) == db[id].seen_at < t - RetentionTicks

\* C7: after cleanup no row older than the retention window is left, and filterNew
\* returns as new a listing whose fingerprint had such an expired row.
C7_CleanupExpires ==
  pc = "cleanup" =>
    /\ \A id \in DOMAIN seen_jobs : ~Expired(seen_jobs, id, clock)
    /\ \A l \in StoreListings :
         (JobId(l) \in DOMAIN seen_before /\ Expired(seen_before, JobId(l), clock))
           => filter_new_jobs(seen_jobs, <<l>>) = <<WithId(l)>>

\* C7 witness: cleanup ran on a table holding an expired row.
C7_Witness ==
  /\ pc = "cleanup"
  /\ \E id \in DOMAIN seen_before : Expired(seen_before, id, clock)

\* C8: the fingerprint depends on (url, company, title) only: two survivors of
\* filterNew never share the triple, and after markSeen of a listing every listing
\* with the same triple, whatever its other fields, is no longer new.
C8_FingerprintOfTripleOnly ==
  /\ pc = "filterNew" =>
       \A i, j \in 1..Len(new_jobs) :
         SameTriple(new_jobs[i], new_jobs[j]) => i = j
  /\ pc = "markSeen" =>
       \A i \in 1..Len(jobs) : \A l \in StoreListings :
         SameTriple(l, jobs[i]) => filter_new_jobs(seen_jobs, <<l>>) = <<>>

\* C8 witness: markSeen stored a listing, and a listing with the same triple and
\* another description exists.
C8_Witness ==
  /\ pc = "markSeen"
  /\ \E i \in 1..Len(jobs) : \E l \in StoreListings :
       /\ SameTriple(l, jobs[i])
       /\ l.description # jobs[i].description
       /\ JobId(l) \notin DOMAIN seen_before
       /\ JobId(l) \in DOMAIN seen_jobs

----------------------------------------------------------------------------
\* generate_job_id on a triple and on a variant of it.

Triples ==
  {<<u, c, t>> : u \in StrUpTo(MaxStrLen), c \in StrUpTo(MaxStrLen),
                 t \in StrUpTo(MaxStrLen)}

SwapCase(c) == IF c = "a" THEN "A" ELSE IF c = "A" THEN "a" ELSE c

FpSpecInit ==
  /\ SchedInit
  /\ ScrapeInit
  /\ PassInit
  /\ FilterInit
  /\ fx \in Triples
  /\ fy = fx
  /\ fout = <<>>

\* the k-th component of the second triple gets one letter in the other case
VaryCase(k) ==
  /\ fout = <<>>
  /\ \A j \in 1..3 : j # k => fy[j] = fx[j]
  /\ \E i \in 1..Len(fy[k]) :
       /\ fy[k][i] # SwapCase(fy[k][i])
       /\ fy' = [fy EXCEPT ![k] = [fy[k] EXCEPT ![i] = SwapCase(fy[k][i])]]
  /\ UNCHANGED <<fx, fout, schedVars, linkedin_429, scrapeVars, passVars, filterVars>>

\* the k-th component of the second triple gets one leading or trailing blank
VaryPad(k) ==
  /\ fout = <<>>
  /\ \A j \in 1..3 : j # k => fy[j] = fx[j]
  /\ Len(fy[k]) = Len(fx[k])
  /\ \/ fy' = [fy EXCEPT ![k] = <<Space>> \o fy[k]]
     \/ fy' = [fy EXCEPT ![k] = fy[k] \o <<Space>>]
  /\ UNCHANGED <<fx, fout, schedVars, linkedin_429, scrapeVars, passVars, filterVars>>

\* generate_job_id(url, company, title) on both triples
ComputeIds ==
  /\ fout = <<>>
  /\ fout' = <<generate_job_id(fx[1], fx[2], fx[3]),
               generate_job_id(fy[1], fy[2], fy[3])>>
  /\ UNCHANGED <<fx, fy, schedVars, linkedin_429, scrapeVars, passVars, filterVars>>

FpNext ==
  \/ \E k \in 1..3 : VaryCase(k)
  \/ \E k \in 1..3 : VaryPad(k)
  \/ ComputeIds

SpecFp == FpSpecInit /\ [][FpNext]_vars

\* two listings with any two triples
JoinSpecInit ==
  /\ SchedInit
  /\ ScrapeInit
  /\ PassInit
  /\ FilterInit
  /\ fx \in Triples
  /\ fy \in Triples
  /\ fout = <<>>

JoinNext ==
  \/ ComputeIds

SpecJoin == JoinSpecInit /\ [][JoinNext]_vars

\* C9: triples that differ only in letter case or in leading / trailing blanks of
\* a component get the same fingerprint.
C9_VariantsCollapse ==
  fout # <<>> => fout[1] = fout[2]

----------------------------------------------------------------------------
\* The retriever: one call of JobScraper.scrape_site.  Delays are counted in
\* half seconds (2.0 s = 4).

Policy(d, n, b) == [delay |-> d, max_retries |-> n, backoff |-> b]

ScrapeSites == {"linkedin", "indeed", "glassdoor", "bayt"}

\* scraper.py: DEFAULT_RATE_LIMITS (the entries of the sites drawn here)
DEFAULT_RATE_LIMITS ==
  [s \in {"linkedin", "indeed", "glassdoor"} |->
     IF s = "linkedin" THEN Policy(4, 3, 2)
     ELSE IF s = "indeed" THEN Policy(2, 3, 2)
     ELSE Policy(3, 3, 2)]

\* config "rate_limits": a table for linkedin alone
ConfiguredRateLimits ==
  {[s \in {"linkedin"} |-> Policy(d, n, b)] :
     d \in 1..2, n \in 0..MaxRetriesCfg, b \in 1..2}

RateLimitTables == {DEFAULT_RATE_LIMITS} \cup ConfiguredRateLimits

\* JobScraper._get_rate_limit: self.rate_limits.get(site, {...})
get_rate_limit(table, s) ==
  IF s \in DOMAIN table THEN table[s] ELSE Policy(2, 3, 2)

RECURSIVE Pow(_, _)
Pow(b, n) == IF n = 0 THEN 1 ELSE b * Pow(b, n - 1)

\* the except branch with the last attempt's error re-raised
handle_exception_reraise(s, att, rl, kind) ==
  IF kind = "rate"
  THEN [flag |-> s = "linkedin", sleep |-> <<rl.delay * Pow(rl.backoff, att)>>,
        exit |-> "continue"]
  ELSE IF att = rl.max_retries - 1
       THEN [flag |-> FALSE, sleep |-> <<>>, exit |-> "raise"]
       ELSE [flag |-> FALSE, sleep |-> <<rl.delay>>, exit |-> "continue"]

\* the except branch with the exponential wait after every kind of error
handle_exception_backoff_always(s, att, rl, kind) ==
  IF kind = "rate"
  THEN [flag |-> s = "linkedin", sleep |-> <<rl.delay * Pow(rl.backoff, att)>>,
        exit |-> "continue"]
  ELSE IF att = rl.max_retries - 1
       THEN [flag |-> FALSE, sleep |-> <<>>, exit |-> "return"]
       ELSE [flag |-> FALSE, sleep |-> <<rl.delay * Pow(rl.backoff, att)>>,
             exit |-> "continue"]

\* the except branch with the rate-limit wait not growing with the attempt
handle_exception_flat_wait(s, att, rl, kind) ==
  IF kind = "rate"
  THEN [flag |-> s = "linkedin", sleep |-> <<rl.delay>>, exit |-> "continue"]
  ELSE IF att = rl.max_retries - 1
       THEN [flag |-> FALSE, sleep |-> <<>>, exit |-> "return"]
       ELSE [flag |-> FALSE, sleep |-> <<rl.delay>>, exit |-> "continue"]

\* scrape_site: "except Exception as e:" for an error of kind "rate" ("429" or
\* "rate" in the message) or "error" (any other): whether linkedin_429 is set,
\* the sleep made, and how the iteration ends
handle_exception(s, att, rl, kind) ==
  IF kind = "rate"
  THEN [flag |-> s = "linkedin", sleep |-> <<rl.delay * Pow(rl.backoff, att)>>,
        exit |-> "continue"]
  ELSE IF att = rl.max_retries - 1
       THEN [flag |-> FALSE, sleep |-> <<>>, exit |-> "return"]
       ELSE [flag |-> FALSE, sleep |-> <<rl.delay>>, exit |-> "continue"]

ScrapeSpecInit == SchedInit /\ FpInit /\ ScrapeInit /\ PassInit /\ FilterInit

\* scrape_site(site, ...) is called: rate_limit = self._get_rate_limit(site), and
\* "for attempt in range(max_retries)" starts (or, with no attempt to make, ends)
CallScrapeSite ==
  /\ pc \in {"top", "returned"}
  /\ \E s \in ScrapeSites, table \in RateLimitTables :
       /\ site' = s
       /\ rate_limit' = get_rate_limit(table, s)
  /\ attempt' = 0
  /\ calls' = <<>>
  /\ sleeps' = <<>>
  /\ outcomes' = <<>>
  /\ result' = <<>>
  /\ raised' = FALSE
  /\ pc' = IF rate_limit'.max_retries = 0 THEN "returned" ELSE "attempt"
  /\ UNCHANGED <<clock, now, last_jobspy_run, last_jooble_run, source, jobs,
                 new_jobs, seen_jobs, handed, notifyCount, polled, seen_before,
                 linkedin_429, fpVars, passVars, filterVars>>

\* scrape_jobs(site_name=[site], ...) returns: time.sleep(delay), then
\* "return []" for an empty frame or "return df.to_dict('records')"
AttemptSucceeds ==
  /\ pc = "attempt"
  /\ calls' = Append(calls, <<site>>)
  /\ outcomes' = Append(outcomes, "ok")
  /\ sleeps' = Append(sleeps, rate_limit.delay)
  /\ \E rows \in {<<>>, <<"row">>} : result' = rows
  /\ pc' = "returned"
  /\ UNCHANGED <<clock, now, last_jobspy_run, last_jooble_run, source, jobs,
                 new_jobs, seen_jobs, handed, notifyCount, polled, seen_before,
                 linkedin_429, fpVars, site, rate_limit, attempt, raised,
                 passVars, filterVars>>

\* scrape_jobs raises: the except branch, then the next iteration, the end of the
\* loop ("return []" after it) or the return inside the branch
AttemptFails ==
  /\ pc = "attempt"
  /\ calls' = Append(calls, <<site>>)
  /\ \E kind \in {"rate", "error"} :
       LET h == handle_exception(site, attempt, rate_limit, kind) IN
         /\ outcomes' = Append(outcomes, kind)
         /\ linkedin_429' = (linkedin_429 \/ h.flag)
         /\ sleeps' = sleeps \o h.sleep
         /\ raised' = (h.exit = "raise")
         /\ attempt' = IF h.exit = "continue" THEN attempt + 1 ELSE attempt
         /\ pc' = IF h.exit = "raise" THEN "raised"
                  ELSE IF h.exit = "return" THEN "returned"
                  ELSE IF attempt + 1 < rate_limit.max_retries THEN "attempt"
                  ELSE "returned"
  /\ result' = <<>>
  /\ UNCHANGED <<clock, now, last_jobspy_run, last_jooble_run, source, jobs,
                 new_jobs, seen_jobs, handed, notifyCount, polled, seen_before,
                 fpVars, site, rate_limit, passVars, filterVars>>

ScrapeNext ==
  \/ CallScrapeSite
  \/ AttemptSucceeds
  \/ AttemptFails

\* every call of the external scrape returns or raises, and the caller goes on
SpecScrape == ScrapeSpecInit /\ [][ScrapeNext]_vars /\ WF_vars(ScrapeNext)

AllFailed == \A i \in 1..Len(outcomes) : outcomes[i] # "ok"

ScrapeSiteSafe ==
  /\ ~raised
  /\ pc # "raised"
  /\ Len(calls) <= rate_limit.max_retries
  /\ \A i \in 1..Len(calls) : calls[i] = <<site>>
  /\ pc = "returned" =>
       /\ result \in {<<>>, <<"row">>}
       /\ AllFailed => result = <<>>

\* C10: scrape_site never raises and always returns: it makes at most max_retries
\* calls of the external scrape, each for its one site, and returns a list, the
\* empty one when every attempt failed.
C10_ScrapeSiteTotal ==
  /\ []ScrapeSiteSafe
  /\ (pc = "attempt") ~> (pc = "returned")

\* C10 witness: all of several attempts failed, of both kinds, and scrape_site
\* returned the empty list.
C10_Witness ==
  /\ pc = "returned"
  /\ rate_limit.max_retries >= 2
  /\ Len(calls) = rate_limit.max_retries
  /\ AllFailed
  /\ \E i, j \in 1..Len(outcomes) : outcomes[i] = "rate" /\ outcomes[j] = "error"
  /\ result = <<>>

----------------------------------------------------------------------------
\* One pass: JobScraper.scrape_searches over scrape_all over scrape_site.

PassSites == {"linkedin", "indeed"}

\* the rate-limit tables a scraper is constructed with: the defaults, or a
\* configured table for linkedin alone
PassRateLimitTables == {DEFAULT_RATE_LIMITS, [s \in {"linkedin"} |-> Policy(1, 2, 2)]}

\* config "searches": n search dicts, each with its "term"; main() passes them,
\* and the config's sites, to every pass
SearchesOfLen(n) == [i \in 1..n |-> [term |-> i]]

\* what the external scrape does at each attempt of one scrape_site call
OutcomeSeqs(n) == [1..n -> {"ok", "rate", "error"}]

\* scrape_site with the retries exhausted raising instead of returning
RECURSIVE scrape_site_propagates(_, _, _, _, _)
scrape_site_propagates(s, rl, outs, rows, att) ==
  IF att >= rl.max_retries
  THEN [flag |-> FALSE, signal |-> FALSE, ok |-> FALSE, rows |-> <<>>,
        exit |-> "raise"]
  ELSE IF outs[att + 1] = "ok"
  THEN [flag |-> FALSE, signal |-> FALSE, ok |-> TRUE, rows |-> rows,
        exit |-> "return"]
  ELSE LET h == handle_exception(s, att, rl, outs[att + 1]) IN
         IF h.exit = "continue"
         THEN LET rest == scrape_site_propagates(s, rl, outs, rows, att + 1) IN
                [flag |-> h.flag \/ rest.flag,
                 signal |-> (outs[att + 1] = "rate") \/ rest.signal,
                 ok |-> rest.ok, rows |-> rest.rows, exit |-> rest.exit]
         ELSE [flag |-> h.flag, signal |-> outs[att + 1] = "rate", ok |-> FALSE,
               rows |-> <<>>, exit |-> "raise"]

\* scrape_site from attempt att on, the external scrape behaving as outs and
\* returning rows when it succeeds: whether linkedin_429 is set, whether an
\* attempt was rate-limited, whether an attempt succeeded, the rows returned, and
\* how the call ends
RECURSIVE scrape_site(_, _, _, _, _)
scrape_site(s, rl, outs, rows, att) ==
  IF att >= rl.max_retries
  THEN [flag |-> FALSE, signal |-> FALSE, ok |-> FALSE, rows |-> <<>>,
        exit |-> "return"]
  ELSE IF outs[att + 1] = "ok"
  THEN [flag |-> FALSE, signal |-> FALSE, ok |-> TRUE, rows |-> rows,
        exit |-> "return"]
  ELSE LET h == handle_exception(s, att, rl, outs[att + 1]) IN
         IF h.exit = "continue"
         THEN LET rest == scrape_site(s, rl, outs, rows, att + 1) IN
                [flag |-> h.flag \/ rest.flag,
                 signal |-> (outs[att + 1] = "rate") \/ rest.signal,
                 ok |-> rest.ok, rows |-> rest.rows, exit |-> rest.exit]
         ELSE [flag |-> h.flag, signal |-> outs[att + 1] = "rate", ok |-> FALSE,
               rows |-> <<>>, exit |-> h.exit]

\* what one scrape_site call can come to, over all behaviours of the external scrape
ScrapeSiteResults(s, rl) ==
  {scrape_site(s, rl, outs, rows, 0) :
     outs \in OutcomeSeqs(rl.max_retries), rows \in {<<>>, <<"row">>}}

PassSpecInit ==
  /\ SchedInit
  /\ FpInit
  /\ ScrapeInit
  /\ FilterInit
  /\ searches \in {SearchesOfLen(n) : n \in 0..MaxTerms}
  /\ sites \in SeqsUpTo(PassSites, MaxSites)
  /\ rate_limits \in PassRateLimitTables
  /\ term_idx = 0
  /\ site_idx = 0
  /\ all_jobs = <<>>
  /\ events = <<>>
  /\ rate_signals = {}
  /\ exhausted = 0

Event(k, t, i, s, rl) == [kind |-> k, term |-> t, pos |-> i, site |-> s, policy |-> rl]

\* scrape_searches with "self.linkedin_429 = False" left out
CallScrapeSearches_keeps_flag ==
  /\ pc \in {"top", "pass_returned"}
  /\ all_jobs' = <<>>
  /\ linkedin_429' = linkedin_429
  /\ term_idx' = 1
  /\ site_idx' = 1
  /\ events' = <<>>
  /\ rate_signals' = {}
  /\ exhausted' = 0
  /\ pc' = "pass"
  /\ UNCHANGED <<clock, now, last_jobspy_run, last_jooble_run, source, jobs,
                 new_jobs, seen_jobs, handed, notifyCount, polled, seen_before,
                 fpVars, scrapeVars, searches, sites, rate_limits, filterVars>>

\* scrape_searches(searches, sites) is called with the config's searches and sites:
\* "all_jobs = []; self.linkedin_429 = False", and "for search in searches" starts
CallScrapeSearches ==
  /\ pc \in {"top", "pass_returned"}
  /\ all_jobs' = <<>>
  /\ linkedin_429' = FALSE
  /\ term_idx' = 1
  /\ site_idx' = 1
  /\ events' = <<>>
  /\ rate_signals' = {}
  /\ exhausted' = 0
  /\ pc' = "pass"
  /\ UNCHANGED <<clock, now, last_jobspy_run, last_jooble_run, source, jobs,
                 new_jobs, seen_jobs, handed, notifyCount, polled, seen_before,
                 fpVars, scrapeVars, searches, sites, rate_limits, filterVars>>

\* one iteration of scrape_all's "for site in sites": jobs = self.scrape_site(...),
\* all_jobs.extend(jobs), and "if site != sites[-1]: time.sleep(rate_limit['delay'])"
ScrapeAllIteration ==
  /\ pc = "pass"
  /\ term_idx <= Len(searches)
  /\ site_idx <= Len(sites)
  /\ LET s == sites[site_idx]
         t == searches[term_idx].term
         rl == get_rate_limit(rate_limits, s)
     IN \E r \in ScrapeSiteResults(s, rl) :
          /\ linkedin_429' = (linkedin_429 \/ r.flag)
          /\ rate_signals' = rate_signals \cup (IF r.signal THEN {s} ELSE {})
          /\ exhausted' = exhausted + (IF r.ok THEN 0 ELSE 1)
          /\ IF r.exit = "raise"
             THEN /\ events' = Append(events, Event("scrape_site", t, site_idx, s, rl))
                  /\ pc' = "pass_raised"
                  /\ UNCHANGED <<all_jobs, site_idx>>
             ELSE /\ all_jobs' = all_jobs \o r.rows
                  /\ events' =
                       Append(events, Event("scrape_site", t, site_idx, s, rl))
                       \o (IF s # sites[Len(sites)]
                           THEN <<Event("sleep", t, site_idx, s,
                                        get_rate_limit(rate_limits, s))>>
                           ELSE <<>>)
                  /\ site_idx' = site_idx + 1
                  /\ pc' = "pass"
  /\ UNCHANGED <<clock, now, last_jobspy_run, last_jooble_run, source, jobs,
                 new_jobs, seen_jobs, handed, notifyCount, polled, seen_before,
                 fpVars, scrapeVars, searches, sites, rate_limits, term_idx,
                 filterVars>>

\* scrape_all: "return all_jobs"; scrape_searches: "all_jobs.extend(jobs)", and the
\* next search
ScrapeAllReturns ==
  /\ pc = "pass"
  /\ term_idx <= Len(searches)
  /\ site_idx > Len(sites)
  /\ term_idx' = term_idx + 1
  /\ site_idx' = 1
  /\ UNCHANGED <<pc, clock, now, last_jobspy_run, last_jooble_run, source, jobs,
                 new_jobs, seen_jobs, handed, notifyCount, polled, seen_before,
                 linkedin_429, fpVars, scrapeVars, searches, sites, rate_limits,
                 all_jobs, events, rate_signals, exhausted, filterVars>>

\* scrape_searches: "return all_jobs"
ScrapeSearchesReturns ==
  /\ pc = "pass"
  /\ term_idx > Len(searches)
  /\ pc' = "pass_returned"
  /\ UNCHANGED <<clock, now, last_jobspy_run, last_jooble_run, source, jobs,
                 new_jobs, seen_jobs, handed, notifyCount, polled, seen_before,
                 linkedin_429, fpVars, scrapeVars, passVars, filterVars>>

PassNext ==
  \/ CallScrapeSearches
  \/ ScrapeAllIteration
  \/ ScrapeAllReturns
  \/ ScrapeSearchesReturns

SpecPass == PassSpecInit /\ [][PassNext]_vars

----------------------------------------------------------------------------
\* One call of filter_jobs.

SeniorDesigner == <<"S", "e", "n", "i", "o", "r", " ", "D", "e", "s", "i", "g", "n", "e", "r">>
BackendDeveloper == <<"B", "a", "c", "k", "e", "n", "d", " ", "D", "e", "v", "e", "l", "o", "p", "e", "r">>
MadridSpain == <<"M", "a", "d", "r", "i", "d", ",", " ", "S", "p", "a", "i", "n">>
ValenciaSpain == <<"V", "a", "l", "e", "n", "c", "i", "a", ",", " ", "S", "p", "a", "i", "n">>
ParisFrance == <<"P", "a", "r", "i", "s", ",", " ", "F", "r", "a", "n", "c", "e">>
WorkFromHome == <<"W", "o", "r", "k", " ", "f", "r", "o", "m", " ", "h", "o", "m", "e">>

\* the listings a scraper hands over, as far as filter_jobs reads them
FilterListings ==
  [title : {SeniorDesigner, BackendDeveloper},
   location : {MadridSpain, ValenciaSpain, ParisFrance, None},
   description : {WorkFromHome, NaN}]

\* config: title_must_contain, location_exclude, remote_only, spain_only
FilterOptions ==
  [title_must_contain : {<<>>, <<<<"d", "e", "s", "i", "g", "n", "e", "r">>>>, <<<<"D", "e", "v", "e", "l", "o", "p", "e", "r">>>>},
   location_exclude : {<<>>, <<<<"m", "a", "d", "r", "i", "d">>>>, <<<<"P", "a", "r", "i", "s">>, <<"m", "a", "d", "r", "i", "d">>>>},
   remote_only : BOOLEAN,
   spain_only : BOOLEAN]

FilterSpecInit ==
  /\ SchedInit
  /\ FpInit
  /\ ScrapeInit
  /\ PassInit
  /\ fjobs \in Batches(FilterListings)
  /\ fopts \in FilterOptions
  /\ filtered = <<>>

\* process_jobs: jobs = filter_jobs(jobs, title_must_contain=..., ...)
CallFilterJobs ==
  /\ pc = "top"
  /\ filtered' = filter_jobs(fjobs, fopts.title_must_contain, fopts.location_exclude,
                             fopts.remote_only, fopts.spain_only)
  /\ pc' = "filtered"
  /\ UNCHANGED <<clock, now, last_jobspy_run, last_jooble_run, source, jobs,
                 new_jobs, seen_jobs, handed, notifyCount, polled, seen_before,
                 linkedin_429, fpVars, scrapeVars, passVars, fjobs, fopts>>

FilterNext ==
  \/ CallFilterJobs

SpecFilter == FilterSpecInit /\ [][FilterNext]_vars

----------------------------------------------------------------------------
\* Claims about the backoff of scrape_site (checked under SpecScrape).

\* every attempt of the call was made and failed with a rate-limit signal
AllRateLimited ==
  /\ pc = "returned"
  /\ rate_limit.max_retries >= 1
  /\ Len(outcomes) = rate_limit.max_retries
  /\ \A i \in 1..Len(outcomes) : outcomes[i] = "rate"

\* d, d*b, ..., d*b^(n-1)
BackoffWaits(rl) ==
  [k \in 1..rl.max_retries |-> rl.delay * Pow(rl.backoff, k - 1)]

----------------------------------------------------------------------------
\* Claims about the due checks and the failures of a tick (checked under Spec).

\* the family's poll starts in this step (it goes on in process_jobs, or its
\* retrieval fails at once)
PollStarts(f) == pc' = "process" \/ polled'[f] = "failed"

\* C12: at a family's due check the family is polled exactly when
\* now - lastPollTime >= its interval, whatever the other family did in the tick;
\* the second family's check is reached after the first family ran, failed or
\* was skipped.
C12_PolledExactlyWhenDue ==
  [][/\ \A f \in Families :
          pc = CheckPc(f) =>
            ((now - LastRun(f) >= Interval(f)) <=> PollStarts(f))
     /\ (source = "JobSpy" /\ pc' \notin {"dedup", "mark", "notify"}) => pc' = "jooble"
     /\ (pc # "jooble" /\ pc' = "cleanup") => source = "Jooble"]_vars

\* C12 witness: a tick after the first one in which both families were due, the
\* first family's poll failed and the second family was polled all the same.
C12_Witness ==
  /\ pc = "cleanup"
  /\ now > StartClock
  /\ polled["JobSpy"] = "failed"
  /\ polled["Jooble"] = "ok"
  /\ last_jooble_run = now

\* a step in which the poll of family f fails
PollFails(f) == polled[f] # "failed" /\ polled'[f] = "failed"

\* C13: a failure of a poll moves on to the next step of the same tick (the other
\* family's due check, then the retention sweep), a failure of the sweep moves on
\* to the sleep, the sleep is only reached through the sweep, and between polls
\* the loop's next step can always be taken (up to the clock's bound).
C13_NoFailureStopsTheLoop ==
  /\ [](pc \in {"top", "jobspy", "jooble", "process", "dedup", "mark", "notify",
                "cleanup", "sleep"})
  /\ [](/\ pc = "top" => ENABLED LoopTop
        /\ \A f \in Families : pc = CheckPc(f) => ENABLED (NotDue(f) \/ Retrieve(f))
        /\ pc = "cleanup" => ENABLED Cleanup
        /\ (pc = "sleep" /\ clock < MaxClock) => ENABLED Sleep)
  /\ [][/\ \A f \in Families : PollFails(f) => pc' = AfterPc(f)
        /\ pc = "jobspy" => pc' \in {"jooble", "process"}
        /\ pc = "jooble" => pc' \in {"cleanup", "process"}
        /\ pc = "cleanup" => pc' = "sleep"
        /\ pc' = "sleep" => pc = "cleanup"
        /\ pc' = "top" => (pc = "sleep" /\ clock' = clock + 1)]_vars

\* C13 witness: a tick after the first one whose two polls and whose sweep's
\* predecessors all failed reaches the sleep.
C13_Witness ==
  /\ pc = "sleep"
  /\ now > StartClock
  /\ polled["JobSpy"] = "failed"
  /\ polled["Jooble"] = "failed"

----------------------------------------------------------------------------
\* Claims about the other outcomes of an attempt (checked under SpecScrape).

\* the attempt made in this step ended with outcome o
AttemptEnds(o) ==
  /\ pc = "attempt"
  /\ Len(outcomes') = Len(outcomes) + 1
  /\ outcomes'[Len(outcomes')] = o

\* C20: an attempt failing with an error that is no rate-limit signal sleeps
\* exactly base_delay and retries, leaving the flag alone, except on the final
\* attempt, where scrape_site returns empty without sleeping; an attempt that
\* succeeds sleeps base_delay once and returns its rows.
C20_ErrorAndSuccessSleeps ==
  [][/\ (AttemptEnds("error") /\ attempt < rate_limit.max_retries - 1) =>
          /\ sleeps' = Append(sleeps, rate_limit.delay)
          /\ attempt' = attempt + 1
          /\ pc' = "attempt"
          /\ linkedin_429' = linkedin_429
     /\ (AttemptEnds("error") /\ attempt = rate_limit.max_retries - 1) =>
          /\ sleeps' = sleeps
          /\ result' = <<>>
          /\ pc' = "returned"
          /\ linkedin_429' = linkedin_429
     /\ AttemptEnds("ok") =>
          /\ sleeps' = Append(sleeps, rate_limit.delay)
          /\ result' \in {<<>>, <<"row">>}
          /\ pc' = "returned"
          /\ linkedin_429' = linkedin_429]_vars

\* C20 witness: three errors that are no rate-limit signals, with backoff 2: two
\* sleeps of base_delay, none after the last attempt, empty result, flag unset.
C20_Witness ==
  /\ pc = "returned"
  /\ outcomes = <<"error", "error", "error">>
  /\ rate_limit = Policy(2, 3, 2)
  /\ sleeps = <<2, 2>>
  /\ result = <<>>
  /\ ~linkedin_429

----------------------------------------------------------------------------
\* Claims about a pass (checked under SpecPass).

InPass == pc \in {"pass", "pass_returned"}

IsCall(e) == e.kind = "scrape_site"
IsSleep(e) == e.kind = "sleep"

\* the scrape_site calls of the pass so far
Calls == SelectSeq(events, IsCall)

\* the policy of site s by the scraper's table, or the built-in fallback
OwnPolicy(s) ==
  IF s \in DOMAIN rate_limits THEN rate_limits[s]
  ELSE [delay |-> 2, max_retries |-> 3, backoff |-> 2]

\* the k-th pair in term-major order
TermOf(k) == ((k - 1) \div Len(sites)) + 1
PosOf(k) == ((k - 1) % Len(sites)) + 1

\* the pairs the loops have gone through
PairsDone ==
  IF pc = "pass_returned" THEN Len(searches) * Len(sites)
  ELSE (term_idx - 1) * Len(sites) + (site_idx - 1)

\* C14: in a pass every (search term, site) pair is attempted by scrape_site
\* exactly once, in term-major order, each with its site's own policy, whatever
\* the outcomes; the pass never aborts, and a call that never succeeded adds no row.
C14_EveryPairOnceTermMajor ==
  /\ pc # "pass_raised"
  /\ InPass =>
       /\ Len(Calls) = PairsDone
       /\ \A k \in 1..Len(Calls) :
            /\ Calls[k].term = searches[TermOf(k)].term
            /\ Calls[k].pos = PosOf(k)
            /\ Calls[k].site = sites[PosOf(k)]
            /\ Calls[k].policy = OwnPolicy(sites[PosOf(k)])
       /\ Len(all_jobs) <= Len(Calls) - exhausted

\* C14 witness: two terms over linkedin and indeed; two of the four calls never
\* succeeded, and the other two were made all the same and returned a row each.
C14_Witness ==
  /\ pc = "pass_returned"
  /\ Len(searches) = 2
  /\ sites = <<"linkedin", "indeed">>
  /\ exhausted = 2
  /\ Len(Calls) = 4
  /\ Calls[2].policy # Calls[1].policy
  /\ all_jobs = <<"row", "row">>

C19_SleepBetweenSites ==
  InPass =>
    \A k \in 1..Len(events) :
      IsCall(events[k]) =>
        IF events[k].pos < Len(sites)
        THEN /\ k < Len(events)
             /\ IsSleep(events[k + 1])
             /\ events[k + 1].policy.delay = OwnPolicy(events[k].site).delay
        ELSE k < Len(events) => ~IsSleep(events[k + 1])

----------------------------------------------------------------------------
\* Claims about filter_jobs (checked under SpecFilter).

\* the four predicates of a listing under the options o, each true when disabled
RemoteMatch(job, o) == o.remote_only => is_remote(job)
RegionMatch(job, o) == o.spain_only => is_spain(job)
LocationAllowed(job, o) ==
  \A k \in DOMAIN o.location_exclude :
    ~Contains(LowerText(o.location_exclude[k]), clean_str(job.location))
TitleMatch(job, o) ==
  o.title_must_contain # <<>> =>
    \E k \in DOMAIN o.title_must_contain :
      Contains(LowerText(o.title_must_contain[k]), clean_str(job.title))

Kept(job) ==
  /\ RemoteMatch(job, fopts)
  /\ RegionMatch(job, fopts)
  /\ LocationAllowed(job, fopts)
  /\ TitleMatch(job, fopts)

NoPredicate(o) ==
  /\ o.title_must_contain = <<>>
  /\ o.location_exclude = <<>>
  /\ ~o.remote_only
  /\ ~o.spain_only

\* C15: filter_jobs returns exactly the input listings that satisfy all enabled
\* predicates, in input order, in whatever order the predicates are taken; with
\* no predicate enabled it returns its input.
C15_FilterIsConjunction ==
  pc = "filtered" =>
    /\ filtered = SelectSeq(fjobs, Kept)
    /\ NoPredicate(fopts) => filtered = fjobs

\* C15 witness: keyword "designer" and exclusion "madrid": "Senior Designer" in
\* "Madrid, Spain" is dropped and in "Valencia, Spain" is kept.
C15_Witness ==
  /\ pc = "filtered"
  /\ fopts.title_must_contain = <<<<"d", "e", "s", "i", "g", "n", "e", "r">>>>
  /\ fopts.location_exclude = <<<<"m", "a", "d", "r", "i", "d">>>>
  /\ Len(fjobs) = 2
  /\ fjobs[1].title = SeniorDesigner /\ fjobs[1].location = MadridSpain
  /\ fjobs[2].title = SeniorDesigner /\ fjobs[2].location = ValenciaSpain
  /\ filtered = <<fjobs[2]>>

----------------------------------------------------------------------------
\* Claims about the notification step (checked under Spec).

\* C16: a JobSpy poll whose pass recorded a rate-limit signal always ends with the
\* flag handed to notifier.notify and the notification carrying the warning
\* dispatched: such a poll ends only by notify returning.
C16_WarningDispatchedWhenThrottled ==
  [][(source = "JobSpy" /\ linkedin_429 /\ polled'["JobSpy"] # polled["JobSpy"])
       => (pc = "notify" /\ polled'["JobSpy"] = "ok")]_vars

\* C17: whatever notify does (it returns true or false, or it raises), the store
\* is left as it is: every listing handed to notify is in the store after the
\* poll, the poll ends without a retry, and a listing handed to notify is not
\* returned as new again while its row is in the store.
C17_NotifyFailureKeepsDedupState ==
  /\ [][pc = "notify" =>
          /\ seen_jobs' = seen_jobs
          /\ \A i \in 1..Len(new_jobs) : new_jobs[i].job_id \in DOMAIN seen_jobs'
          /\ filter_new_jobs(seen_jobs', new_jobs) = <<>>
          /\ pc' = AfterPc(source)]_vars
  /\ [](\A id \in DOMAIN notifyCount : notifyCount[id] >= 1 => id \in DOMAIN seen_jobs)
  /\ [](pc \in {"mark", "notify"} =>
          \A i \in 1..Len(new_jobs) : notifyCount[new_jobs[i].job_id] = 0)

\* C17 witness: in the first tick notify raised on JobSpy's batch: the poll has
\* failed, and the listings handed to notify are in the store.
C17_Witness ==
  /\ pc = "jooble"
  /\ now = StartClock
  /\ polled["JobSpy"] = "failed"
  /\ handed # {}
  /\ \A id \in handed : id \in DOMAIN seen_jobs /\ notifyCount[id] = 1

----------------------------------------------------------------------------
\* Claims about the life of a row and about reads of the store (checked under
\* SpecStore).

\* C21: in every step of the store (filterNew, markSeen, cleanup, time passing) a
\* row that exists stays, with its fields and its first-sighting time as they
\* were, unless the step is a cleanup made when the row is older than the
\* retention window; a cleanup deletes no row that is not older than the window.
C21_RowLivesUntilExpiry ==
  [][\A id \in DOMAIN seen_jobs :
       \/ id \in DOMAIN seen_jobs' /\ seen_jobs'[id] = seen_jobs[id]
       \/ /\ pc' = "cleanup"
          /\ id \notin DOMAIN seen_jobs'
          /\ seen_jobs[id].seen_at < clock - RetentionTicks]_vars

\* C21 witness: a cleanup deleted a row older than the window and kept a row
\* exactly as old as the window.
C21_Witness ==
  /\ pc = "cleanup"
  /\ \E id \in DOMAIN seen_before : id \notin DOMAIN seen_jobs
  /\ \E id \in DOMAIN seen_jobs :
       /\ seen_jobs[id].seen_at = clock - RetentionTicks
       /\ seen_jobs[id] = seen_before[id]


\* the batch as filter_new_jobs leaves it: job["_job_id"] set on its survivors
AfterFilter(db, js) ==
  [i \in DOMAIN js |-> IF i \in FirstNew(db, js) THEN WithId(js[i]) ELSE js[i]]

\* C22: after a call of filterNew the table is the table of before the call (no
\* row added, none removed), and a second filterNew of the same batch with no
\* markSeen in between (on the batch as given, or as the first call left it)
\* returns the same survivors.
C22_FilterNewReadOnly ==
  pc = "filterNew" =>
    /\ seen_jobs = seen_before
    /\ filter_new_jobs(seen_jobs, jobs) = new_jobs
    /\ filter_new_jobs(seen_jobs, AfterFilter(seen_before, jobs)) = new_jobs

\* C22 witness: filterNew ran on a table with rows and on a batch with a seen and a
\* new listing; the table is as before and the new listing is the survivor.
C22_Witness ==
  /\ pc = "filterNew"
  /\ seen_jobs # EmptyTable
  /\ seen_jobs = seen_before
  /\ Len(jobs) = 2
  /\ JobId(jobs[1]) \in DOMAIN seen_jobs
  /\ new_jobs = <<WithId(jobs[2])>>

----------------------------------------------------------------------------
\* Claim about the join of the three components (checked under SpecJoin).

\* a triple with each component case-normalized and trimmed
Normalized(t) == [k \in 1..3 |-> Strip(Lower(t[k]))]

\* C24: two listings whose (url, company, title) triples differ after
\* case-normalization and trimming of the components never get the same
\* fingerprint.
C24_JoinInjective ==
  (fout # <<>> /\ Normalized(fx) # Normalized(fy)) => fout[1] # fout[2]

----------------------------------------------------------------------------
\* Claim about the progress of the scheduler (checked under SpecLive).

\* the ticks from which family f still has a whole interval before the clock's bound
TicksWithRoom(f) == StartClock..(MaxClock - Interval(f) + 1)

\* family f is polled in the current tick
PolledNow(f) == polled[f] # "none"

\* C23: with every step terminating and time advancing, both families are polled
\* on the first tick, and from the top of every tick each family is polled again
\* within its interval, whatever the polls of either family do (succeed or fail).
C23_EveryFamilyPolledAgain ==
  /\ []((pc \in {"cleanup", "sleep"} /\ now = StartClock) =>
          \A f \in Families : PolledNow(f))
  /\ \A f \in Families : \A t \in TicksWithRoom(f) :
       (pc = "top" /\ clock = t)
         ~> (PolledNow(f) /\ now >= t /\ now <= t + Interval(f) - 1)

\* C23 witness: in a tick after the first one Jooble is polled again, after polls
\* of JobSpy that failed in this tick and in the one before it.
C23_Witness ==
  /\ pc = "cleanup"
  /\ now = StartClock + JoobleInterval
  /\ polled["JobSpy"] = "failed"
  /\ polled["Jooble"] = "ok"
  /\ last_jobspy_run < now - JobspyInterval

====
